---- MODULE Spec2Model ----
(***************************************************************************)
(* Verification model of src/behavior.ts (wollok-ts): the runtime          *)
(* Evaluation / Frame behaviour, hierarchy linearisation and method        *)
(* lookup, fully qualified names, and the structural transform.            *)
(***************************************************************************)
EXTENDS Integers, Sequences, FiniteSets, TLC

VARIABLES
  \* ---- runtime (Evaluation / Frame). Every JavaScript object or array the
  \* ---- code can alias lives in a heap; an address is an index into it.
  evaluations,    \* Seq of [frameStack |-> addr, instances |-> addr]
  hFrameStack,    \* heap of frameStack arrays: Seq of frame addresses
  hFrame,         \* heap of Frame objects: [locals, operandStack, resume] addresses
  hLocals,        \* heap of locals objects: Name -> Id
  hOperandStack,  \* heap of operandStack arrays: Seq of Id
  hResume,        \* heap of resume arrays: Seq of Interruption
  hInstances,     \* heap of instances tables: Id -> RuntimeObject address
  hObject,        \* heap of RuntimeObjects: [id, module, fields, innerValue]
  hFields,        \* heap of fields objects: Name -> Id
  uuidCount,      \* ids minted by uuid() so far
  ops,            \* operations performed so far
  last,           \* the last operation: its arguments, outcome and pre-state
  \* ---- linked modules (hierarchy, lookupMethod)
  modules,        \* Module id -> [kind, mixins (targets, in order), superclass (target or NULL)]
  methods,        \* Module id -> Seq of [name, parameters, isVarArg, body, isNative]
  callStack,      \* the pending hierarchyExcluding calls of a running hierarchy()
  pc,             \* "idle" | "running" | "done"
  query,          \* the last hierarchy / lookupMethod call and its result
  \* ---- linked environment (fullyQualifiedName, getNodeByFQN)
  tree,           \* node -> the node it is a child of ("env": the Environment)
  FQN_CACHE,      \* fully qualified name -> node
  answer,         \* the last fullyQualifiedName / getNodeByFQN call and its result
  \* ---- transform
  ast,            \* [size, parent, kind] of the tree transform is applied to
  txCall          \* the last transform call and the applications of tx it made

rtVars == <<evaluations, hFrameStack, hFrame, hLocals, hOperandStack, hResume,
            hInstances, hObject, hFields, uuidCount, ops, last>>

modVars == <<modules, methods, callStack, pc, query>>

envVars == <<tree, FQN_CACHE, answer>>

txVars == <<ast, txCall>>

vars == <<rtVars, modVars, envVars, txVars>>

-----------------------------------------------------------------------------
(* Bounds *)

MaxFrames == 3
MaxOps == 2
MaxCopies == 1
MaxMixinRefs == 3
MaxDepth == 6
MaxArity == 2

-----------------------------------------------------------------------------
(* Small helpers *)

NULL == "null"

EmptyObj == [k \in {} |-> NULL]

Last(s) == s[Len(s)]

Front(s) == SubSeq(s, 1, Len(s) - 1)

Includes(s, x) == \E i \in 1..Len(s) : s[i] = x

Put(f, k, v) == [x \in DOMAIN f \cup {k} |-> IF x = k THEN v ELSE f[x]]

RECURSIVE Pow10(_)
Pow10(n) == IF n = 0 THEN 1 ELSE 10 * Pow10(n - 1)

-----------------------------------------------------------------------------
(* Runtime: inputs *)

DECIMAL_PRECISION == 5

Interruptions == {"exception", "return"}

\* the frames an Evaluation is constructed with: none resumes anything, one resumes
\* exceptions and holds an operand, one lists a kind twice
FrameInputs ==
  { [resume |-> <<>>, operandStack |-> <<>>],
    [resume |-> <<"exception">>, operandStack |-> <<"S!boom">>],
    [resume |-> <<"return", "exception", "exception">>, operandStack |-> <<>>] }

\* numbers are given in units of 10^-(DECIMAL_PRECISION+1): 1.0, 1.000001, -1.000006
NumberInputs == {1000000, 1000001, -1000006}

StringInputs == {"boom"}

OtherModules == {"E"}

ArgIds == {"u1", "S!boom"}

FieldNames == {"message"}

-----------------------------------------------------------------------------
(* Runtime: values *)

NoValue == [type |-> "undefined", neg |-> FALSE, num |-> 0, str |-> ""]

NumberValue(neg, n) == [type |-> "number", neg |-> neg, num |-> n, str |-> ""]

StringValue(s) == [type |-> "string", neg |-> FALSE, num |-> 0, str |-> s]

\* JavaScript truthiness of an innerValue
Truthy(v) ==
  CASE v.type = "number" -> v.num # 0
    [] v.type = "string" -> v.str # ""
    [] OTHER -> FALSE

\* the digits of n, zero padded to k places
RECURSIVE Digits(_, _)
Digits(n, k) == IF k = 0 THEN "" ELSE Digits(n \div 10, k - 1) \o ToString(n % 10)

\* x.toFixed(DECIMAL_PRECISION) of the number x = v * 10^-(DECIMAL_PRECISION+1):
\* the sign and the magnitude in units of 10^-DECIMAL_PRECISION, nearest, ties up
ToFixed(v) ==
  LET a == IF v < 0 THEN -v ELSE v
  IN  [neg |-> v < 0, n |-> (a + 5) \div 10]

\* the text of a toFixed result
FixedString(f) ==
  (IF f.neg THEN "-" ELSE "") \o ToString(f.n \div Pow10(DECIMAL_PRECISION))
     \o "." \o Digits(f.n % Pow10(DECIMAL_PRECISION), DECIMAL_PRECISION)

\* Number(stringValue): the value in units of 10^-(DECIMAL_PRECISION+1); "-0.00000" is -0
ParseNumber(f) == NumberValue(f.neg, f.n * 10)

-----------------------------------------------------------------------------
(* Runtime: views of an evaluation's state, by value *)

ObjectView(o) ==
  [id |-> hObject[o].id, module |-> hObject[o].module,
   fields |-> hFields[hObject[o].fields], innerValue |-> hObject[o].innerValue]

InstancesView(e) ==
  LET t == hInstances[evaluations[e].instances]
  IN  [id \in DOMAIN t |-> ObjectView(t[id])]

FrameView(f) ==
  [locals |-> hLocals[hFrame[f].locals],
   operandStack |-> hOperandStack[hFrame[f].operandStack],
   resume |-> hResume[hFrame[f].resume]]

FramesView(e) ==
  LET s == hFrameStack[evaluations[e].frameStack]
  IN  [i \in 1..Len(s) |-> FrameView(s[i])]

View(e) == [instances |-> InstancesView(e), frames |-> FramesView(e)]

NoView == [instances |-> EmptyObj, frames |-> <<>>]

NoOp == [op |-> "none", ev |-> 0, arg |-> "", id |-> "", frame |-> 0,
         error |-> "", detail |-> "", top |-> 0, pre |-> NoView]

Done(op, e, arg, id, frame, error, detail) ==
  [op |-> op, ev |-> e, arg |-> arg, id |-> id, frame |-> frame,
   error |-> error, detail |-> detail,
   top |-> IF hFrameStack[evaluations[e].frameStack] = <<>> THEN 0
           ELSE Last(hFrameStack[evaluations[e].frameStack]),
   pre |-> View(e)]

-----------------------------------------------------------------------------
(* Runtime: construction *)

\* the instances tables an Evaluation is constructed with: none, or one interned String
InitialInstances == {{}, {"S!boom"}}

\* Evaluation(obj): the caller's frame stack (each frame built by Frame(obj)) and
\* instances table
InitRuntime ==
  \E n \in 0..MaxFrames :
    \E fs \in [1..n -> FrameInputs], ids \in InitialInstances :
      /\ evaluations = <<[frameStack |-> 1, instances |-> 1]>>
      /\ hFrameStack = <<[i \in 1..n |-> i]>>
      /\ hFrame = [i \in 1..n |-> [locals |-> i, operandStack |-> i, resume |-> i]]
      /\ hLocals = [i \in 1..n |-> [k \in {"self"} |-> "o" \o ToString(i)]]
      /\ hOperandStack = [i \in 1..n |-> fs[i].operandStack]
      /\ hResume = [i \in 1..n |-> fs[i].resume]
      /\ hInstances = <<[id \in ids |-> 1]>>
      /\ hObject = [i \in 1..Cardinality(ids) |->
                      [id |-> "S!boom", module |-> "wollok.lang.String",
                       fields |-> 1, innerValue |-> StringValue("boom")]]
      /\ hFields = [i \in 1..Cardinality(ids) |-> EmptyObj]
      /\ uuidCount = 0
      /\ ops = 0
      /\ last = NoOp

-----------------------------------------------------------------------------
(* Runtime: operations *)

\* Evaluation.currentFrame
currentFrame(e) == Last(hFrameStack[evaluations[e].frameStack])

\* Evaluation.instance: the id is a key of the table, or a RangeError
HasInstance(e, id) == id \in DOMAIN hInstances[evaluations[e].instances]

instance(e, id) == hObject[hInstances[evaluations[e].instances][id]]

\* the id and the innerValue createInstance chooses
InstanceId(module, base) ==
  CASE module = "wollok.lang.Number" -> "N!" \o FixedString(ToFixed(base))
    [] module = "wollok.lang.String" -> "S!" \o base
    [] OTHER -> "u" \o ToString(uuidCount + 1)

InstanceInnerValue(module, base) ==
  CASE module = "wollok.lang.Number" -> ParseNumber(ToFixed(base))
    [] module = "wollok.lang.String" -> StringValue(base)
    [] OTHER -> NoValue

\* this.instances[id] = { id, module, fields: {}, innerValue }
StoreInstance(e, id, module, innerValue) ==
  /\ hFields' = Append(hFields, EmptyObj)
  /\ hObject' = Append(hObject, [id |-> id, module |-> module,
                                 fields |-> Len(hFields) + 1, innerValue |-> innerValue])
  /\ hInstances' = [hInstances EXCEPT ![evaluations[e].instances] =
                      Put(@, id, Len(hObject) + 1)]

createInstance(e, module, base) ==
  /\ ops < MaxOps
  /\ LET id == InstanceId(module, base)
     IN  /\ StoreInstance(e, id, module, InstanceInnerValue(module, base))
         /\ last' = Done("createInstance", e, module, id, 0, "", "")
  /\ uuidCount' = IF module \in OtherModules THEN uuidCount + 1 ELSE uuidCount
  /\ ops' = ops + 1
  /\ UNCHANGED <<evaluations, hFrameStack, hFrame, hLocals, hOperandStack, hResume>>

\* faulty variant: the loop as a while loop: the current frame is tested before it is popped
RECURSIVE UnwindTestFirst(_, _)
UnwindTestFirst(stack, interruption) ==
  IF stack # <<>> /\ ~Includes(hResume[hFrame[Last(stack)].resume], interruption)
  THEN UnwindTestFirst(Front(stack), interruption)
  ELSE stack

\* the frame stack after interrupt's do-while loop
RECURSIVE Unwind(_, _)
Unwind(stack, interruption) ==
  LET popped == IF stack = <<>> THEN <<>> ELSE Front(stack)
  IN  IF popped # <<>> /\ ~Includes(hResume[hFrame[Last(popped)].resume], interruption)
      THEN Unwind(popped, interruption)
      ELSE popped

\* the error interrupt surfaces when no frame is left
UnhandledError(e, interruption, valueId) ==
  IF ~HasInstance(e, valueId) THEN "UndefinedInstance"
  ELSE LET value == instance(e, valueId)
           fields == hFields[value.fields]
       IN  IF /\ interruption = "exception"
              /\ "message" \in DOMAIN fields
              /\ ~HasInstance(e, fields["message"])
           THEN "UndefinedInstance"
           ELSE "UnhandledInterruption"

\* the innerValue the message of an unhandled exception is composed from
UnhandledDetail(e, interruption, valueId) ==
  IF interruption # "exception" \/ UnhandledError(e, interruption, valueId) # "UnhandledInterruption"
  THEN ""
  ELSE LET value == instance(e, valueId)
           fields == hFields[value.fields]
           inner == IF "message" \in DOMAIN fields /\ Truthy(instance(e, fields["message"]).innerValue)
                    THEN instance(e, fields["message"]).innerValue
                    ELSE value.innerValue
       IN  value.module \o ": " \o
             (CASE inner.type = "string" -> inner.str
                [] inner.type = "number" -> FixedString([neg |-> inner.neg, n |-> inner.num \div 10])
                [] OTHER -> "undefined")

interrupt(e, interruption, valueId) ==
  /\ ops < MaxOps
  /\ LET a == evaluations[e].frameStack
         rest == Unwind(hFrameStack[a], interruption)
     IN  /\ hFrameStack' = [hFrameStack EXCEPT ![a] = rest]
         /\ IF rest = <<>>
            THEN /\ last' = Done("interrupt", e, interruption, valueId, 0,
                                 UnhandledError(e, interruption, valueId),
                                 UnhandledDetail(e, interruption, valueId))
                 /\ UNCHANGED <<hFrame, hResume, hOperandStack>>
            ELSE LET nextFrame == Last(rest)
                 IN  /\ hResume' = Append(hResume,
                           SelectSeq(hResume[hFrame[nextFrame].resume], LAMBDA elem : elem # interruption))
                     /\ hFrame' = [hFrame EXCEPT ![nextFrame].resume = Len(hResume) + 1]
                     /\ hOperandStack' = [hOperandStack EXCEPT ![hFrame[nextFrame].operandStack] =
                                            Append(@, valueId)]
                     /\ last' = Done("interrupt", e, interruption, valueId, nextFrame, "", "")
  /\ ops' = ops + 1
  /\ UNCHANGED <<evaluations, hLocals, hInstances, hObject, hFields, uuidCount>>

\* Frame.pushOperand, on the current frame of evaluation e
pushOperand(e, id) ==
  /\ ops < MaxOps
  /\ hFrameStack[evaluations[e].frameStack] # <<>>
  /\ LET f == currentFrame(e)
     IN  /\ hOperandStack' = [hOperandStack EXCEPT ![hFrame[f].operandStack] = Append(@, id)]
         /\ last' = Done("pushOperand", e, "", id, f, "", "")
  /\ ops' = ops + 1
  /\ UNCHANGED <<evaluations, hFrameStack, hFrame, hLocals, hResume,
                 hInstances, hObject, hFields, uuidCount>>

\* Frame.popOperand, on the current frame of evaluation e
popOperand(e) ==
  /\ ops < MaxOps
  /\ hFrameStack[evaluations[e].frameStack] # <<>>
  /\ LET f == currentFrame(e)
         stack == hOperandStack[hFrame[f].operandStack]
     IN  IF stack = <<>>
         THEN /\ last' = Done("popOperand", e, "", "", f, "StackUnderflow", "")
              /\ UNCHANGED hOperandStack
         ELSE /\ hOperandStack' = [hOperandStack EXCEPT ![hFrame[f].operandStack] = Front(@)]
              /\ last' = Done("popOperand", e, "", Last(stack), f, "", "")
  /\ ops' = ops + 1
  /\ UNCHANGED <<evaluations, hFrameStack, hFrame, hLocals, hResume,
                 hInstances, hObject, hFields, uuidCount>>

\* evaluation.instance(id).fields[name] = valueId
setField(e, id, name, valueId) ==
  /\ ops < MaxOps
  /\ IF HasInstance(e, id)
     THEN /\ hFields' = [hFields EXCEPT ![instance(e, id).fields] = Put(@, name, valueId)]
          /\ last' = Done("setField", e, name, id, 0, "", "")
     ELSE /\ last' = Done("setField", e, name, id, 0, "UndefinedInstance", "")
          /\ UNCHANGED hFields
  /\ ops' = ops + 1
  /\ UNCHANGED <<evaluations, hFrameStack, hFrame, hLocals, hOperandStack, hResume,
                 hInstances, hObject, uuidCount>>

\* the clone of one instance: { ...instance, fields: { ...instance.fields } }
\* given the address its fields clone gets
CloneObject(o, fieldsAddr) == [hObject[o] EXCEPT !.fields = fieldsAddr]

\* faulty variant: a frame clone that keeps the original's operandStack array
CloneFrameSharing(f, addr) ==
  [locals |-> addr.locals, operandStack |-> hFrame[f].operandStack, resume |-> addr.resume]

\* the clone of one frame, given the address its locals, operandStack and resume clones get
CloneFrame(f, addr) ==
  [locals |-> addr.locals, operandStack |-> addr.operandStack, resume |-> addr.resume]

\* Evaluation.copy
copy(e) ==
  /\ ops < MaxOps
  /\ Len(evaluations) <= MaxCopies
  /\ LET table == hInstances[evaluations[e].instances]
         ids == DOMAIN table
         \* the order in which keys(this.instances) visits the ids
         order == CHOOSE s \in [1..Cardinality(ids) -> ids] :
                    \A i, j \in 1..Cardinality(ids) : i # j => s[i] # s[j]
         pos(id) == CHOOSE i \in 1..Cardinality(ids) : order[i] = id
         stack == hFrameStack[evaluations[e].frameStack]
         n == Len(stack)
     IN  /\ hFields' = hFields \o [i \in 1..Cardinality(ids) |-> hFields[hObject[table[order[i]]].fields]]
         /\ hObject' = hObject \o [i \in 1..Cardinality(ids) |->
                                     CloneObject(table[order[i]], Len(hFields) + i)]
         /\ hInstances' = Append(hInstances, [id \in ids |-> Len(hObject) + pos(id)])
         /\ hLocals' = hLocals \o [i \in 1..n |-> hLocals[hFrame[stack[i]].locals]]
         /\ hOperandStack' = hOperandStack \o [i \in 1..n |-> hOperandStack[hFrame[stack[i]].operandStack]]
         /\ hResume' = hResume \o [i \in 1..n |-> hResume[hFrame[stack[i]].resume]]
         /\ hFrame' = hFrame \o [i \in 1..n |->
                                   CloneFrame(stack[i], [locals |-> Len(hLocals) + i,
                                                         operandStack |-> Len(hOperandStack) + i,
                                                         resume |-> Len(hResume) + i])]
         /\ hFrameStack' = Append(hFrameStack, [i \in 1..n |-> Len(hFrame) + i])
         /\ evaluations' = Append(evaluations, [frameStack |-> Len(hFrameStack) + 1,
                                                instances |-> Len(hInstances) + 1])
  /\ last' = Done("copy", e, "", "", 0, "", "")
  /\ ops' = ops + 1
  /\ UNCHANGED uuidCount

Evals == 1..Len(evaluations)

NextRuntime ==
  \/ \E e \in Evals, n \in NumberInputs :
        createInstance(e, "wollok.lang.Number", n) /\ UNCHANGED <<modVars, envVars, txVars>>
  \/ \E e \in Evals, s \in StringInputs :
        createInstance(e, "wollok.lang.String", s) /\ UNCHANGED <<modVars, envVars, txVars>>
  \/ \E e \in Evals, m \in OtherModules : createInstance(e, m, NULL) /\ UNCHANGED <<modVars, envVars, txVars>>
  \/ \E e \in Evals, k \in Interruptions, id \in ArgIds :
        interrupt(e, k, id) /\ UNCHANGED <<modVars, envVars, txVars>>
  \/ \E e \in Evals, id \in ArgIds : pushOperand(e, id) /\ UNCHANGED <<modVars, envVars, txVars>>
  \/ \E e \in Evals : popOperand(e) /\ UNCHANGED <<modVars, envVars, txVars>>
  \/ \E e \in Evals : \E id \in DOMAIN hInstances[evaluations[e].instances] \cup ArgIds,
                         name \in FieldNames, v \in ArgIds :
        setField(e, id, name, v) /\ UNCHANGED <<modVars, envVars, txVars>>
  \/ \E e \in Evals : copy(e) /\ UNCHANGED <<modVars, envVars, txVars>>

-----------------------------------------------------------------------------
(* Runtime: properties *)

\* the frames of the evaluation the last operation went through, before and after it
PreFrames == last.pre.frames

PostFrames == FramesView(last.ev)

\* the positions of stack whose resume holds kind
Handlers(frames, kind) == {i \in 1..Len(frames) : Includes(frames[i].resume, kind)}

Max(S) == CHOOSE x \in S : \A y \in S : y <= x

\* what interrupt leaves when the frame at position t of the stack handles it
HandledAt(t) ==
  /\ last.error = ""
  /\ Len(PostFrames) = t
  /\ PostFrames[t].locals = PreFrames[t].locals
  /\ ~Includes(PostFrames[t].resume, last.arg)
  /\ PostFrames[t].operandStack = Append(PreFrames[t].operandStack, last.id)
  /\ SubSeq(PostFrames, 1, t - 1) = SubSeq(PreFrames, 1, t - 1)

\* C1 (as stated): whenever some frame of the stack has kind in its resume set,
\* interrupt(kind, valueId) succeeds and leaves the topmost such frame on top, every
\* frame above it removed, kind removed from its resume, valueId pushed on its
\* operand stack and the frames below unchanged.
C1_Original ==
  (last.op = "interrupt" /\ Handlers(PreFrames, last.arg) # {})
    => HandledAt(Max(Handlers(PreFrames, last.arg)))

\* C1 (amended): the same, for the topmost frame strictly below the current frame
\* whose resume set holds kind; the current frame is popped without being asked.
C1_InterruptResumesBelowCurrent ==
  (last.op = "interrupt" /\ Handlers(Front(PreFrames), last.arg) # {})
    => HandledAt(Max(Handlers(Front(PreFrames), last.arg)))

C1_Witness ==
  /\ last.op = "interrupt"
  /\ Len(PreFrames) = 3
  /\ Handlers(Front(PreFrames), last.arg) = {2}
  /\ PreFrames[2].operandStack # <<>>
  /\ last.error = ""

\* C2: when no frame of the stack has kind in its resume set, interrupt fails with
\* the UnhandledInterruption error, and no other, and leaves the frame stack empty.
C2_UnhandledInterruption ==
  (last.op = "interrupt" /\ Handlers(PreFrames, last.arg) = {})
    => (last.error = "UnhandledInterruption" /\ PostFrames = <<>>)

Mutators == {"pushOperand", "popOperand", "interrupt", "createInstance", "setField"}

\* C3: once copied, an operation performed through one evaluation leaves the
\* instances table and the frame stack of every other evaluation as they were.
C3_CopyIsolation ==
  [][\A e \in Evals : (last'.op \in Mutators /\ last'.ev # e) => View(e)' = View(e)]_vars

C3_Witness ==
  /\ Len(evaluations) = 2
  /\ last.op = "pushOperand"
  /\ last.ev = 2
  /\ View(1) # View(2)
  /\ View(1).frames # <<>>

\* C4: createInstance of a Number or String whose id is already in the table returns
\* that id and leaves the instances table equal to what it was.
C4_InterningKeepsTable ==
  (/\ last.op = "createInstance"
   /\ last.arg \in {"wollok.lang.Number", "wollok.lang.String"}
   /\ last.id \in DOMAIN last.pre.instances)
    => InstancesView(last.ev) = last.pre.instances

\* C10: interrupt always removes the frame that was current when it was called: the
\* stack ends strictly shorter, and the frame that receives valueId is another one.
C10_InterruptPopsCurrent ==
  (last.op = "interrupt" /\ PreFrames # <<>>)
    => /\ Len(PostFrames) < Len(PreFrames)
       /\ ~Includes(hFrameStack[evaluations[last.ev].frameStack], last.top)
       /\ last.error = "" => last.frame # last.top

C10_Witness ==
  /\ last.op = "interrupt"
  /\ last.error = ""
  /\ Includes(Last(PreFrames).resume, last.arg)

-----------------------------------------------------------------------------
(* Linked modules: inputs *)

ModuleIds == {"C", "S", "M1", "M2"}

ModuleKind(m) ==
  CASE m = "C" -> "Class"
    [] m = "S" -> "Singleton"
    [] OTHER -> "Mixin"

MixinIds == {m \in ModuleIds : ModuleKind(m) = "Mixin"}

\* what a superclass reference may resolve to
SuperclassTargets(m) ==
  CASE ModuleKind(m) = "Class" -> {NULL, "C", "S"}
    [] ModuleKind(m) = "Singleton" -> {"C"}
    [] OTHER -> {NULL}

SeqsUpTo(S, n) == UNION {[1..k -> S] : k \in 0..n}

\* a method: its name, the number of its parameters, whether the last one is a
\* vararg, whether it has a body, whether it is native
Method(name, n, isVarArg, body, isNative) ==
  [name |-> name, parameters |-> n, isVarArg |-> isVarArg, body |-> body, isNative |-> isNative]

\* the method lists a module is declared with: one of these
MethodChoices(m) ==
  CASE m = "C" -> << <<>>, <<Method("foo", 1, FALSE, FALSE, FALSE)>> >>
    [] m = "S" -> << <<Method("foo", 1, FALSE, FALSE, TRUE)>> >>
    [] m = "M1" -> << <<>>,
                      <<Method("bar", 1, FALSE, TRUE, FALSE), Method("foo", 2, TRUE, TRUE, FALSE)>> >>
    [] OTHER -> << <<Method("foo", 0, FALSE, TRUE, FALSE)>>,
                   <<Method("foo", 2, FALSE, TRUE, FALSE), Method("foo", 1, FALSE, TRUE, FALSE)>> >>

MethodNames == {"foo", "bar"}

NoQuery == [op |-> "none", module |-> "", name |-> "", arity |-> 0,
            hierarchy |-> <<>>, found |-> FALSE, in |-> 0, method |-> 0]

-----------------------------------------------------------------------------
(* Linked modules: construction *)

\* the mixin references of a graph, as (module, target) pairs in declaration order
MixinRefs == SeqsUpTo(ModuleIds \X MixinIds, MaxMixinRefs)

\* the targets of the references module m declares, in order
RECURSIVE MixinsOf(_, _)
MixinsOf(refs, m) ==
  IF refs = <<>> THEN <<>>
  ELSE (IF Head(refs)[1] = m THEN <<Head(refs)[2]>> ELSE <<>>) \o MixinsOf(Tail(refs), m)

\* the module graphs the linker hands over
InitGraph ==
  /\ \E refs \in MixinRefs, sc \in [ModuleIds -> {NULL, "C", "S"}] :
       /\ \A m \in ModuleIds : sc[m] \in SuperclassTargets(m)
       /\ modules = [m \in ModuleIds |-> [kind |-> ModuleKind(m),
                                          mixins |-> MixinsOf(refs, m),
                                          superclass |-> sc[m]]]
  /\ callStack = <<>>
  /\ pc = "idle"
  /\ query = NoQuery

-----------------------------------------------------------------------------
(* Linked modules: hierarchy *)

\* Class.superclassNode / Singleton.superclassNode
superclassNode(m) == modules[m].superclass

\* the mixins' targets, then the superclass unless the module is a Mixin or has none
Parents(m) ==
  modules[m].mixins \o
    (IF modules[m].kind = "Mixin" THEN <<>>
     ELSE IF superclassNode(m) # NULL THEN <<superclassNode(m)>> ELSE <<>>)

\* faulty variant: nothing is ever excluded
ExcludedNever(m, exclude) == FALSE

\* exclude.includes(module.id)
Excluded(m, exclude) == Includes(exclude, m)

\* hierarchyExcluding(module, exclude), as the code computes it
RECURSIVE hierarchyExcluding(_, _)
RECURSIVE FoldParents(_, _, _)
FoldParents(parents, mods, exs) ==
  IF parents = <<>> THEN mods
  ELSE FoldParents(Tail(parents),
                   mods \o hierarchyExcluding(Head(parents), exs),
                   <<Head(parents)>> \o exs)

hierarchyExcluding(m, exclude) ==
  IF Excluded(m, exclude) THEN <<>>
  ELSE FoldParents(Parents(m), <<m>>, <<m>> \o exclude)

hierarchy(m) == hierarchyExcluding(m, <<>>)

\* the same computation one call and one return at a time
CallFrame(m, exclude) ==
  IF Excluded(m, exclude)
  THEN [module |-> m, parents |-> <<>>, next |-> 1, mods |-> <<>>, exs |-> exclude]
  ELSE [module |-> m, parents |-> Parents(m), next |-> 1,
        mods |-> <<m>>, exs |-> <<m>> \o exclude]

StartHierarchy(m) ==
  /\ pc = "idle"
  /\ callStack' = <<CallFrame(m, <<>>)>>
  /\ pc' = "running"
  /\ query' = [NoQuery EXCEPT !.op = "hierarchy", !.module = m]
  /\ UNCHANGED <<modules, methods>>

CallParent ==
  /\ pc = "running"
  /\ Len(callStack) < MaxDepth
  /\ LET top == Last(callStack)
     IN  /\ top.next <= Len(top.parents)
         /\ callStack' = Append(callStack, CallFrame(top.parents[top.next], top.exs))
  /\ UNCHANGED <<modules, methods, pc, query>>

ReturnMods ==
  /\ pc = "running"
  /\ LET top == Last(callStack)
     IN  /\ top.next > Len(top.parents)
         /\ IF Len(callStack) = 1
            THEN /\ callStack' = <<>>
                 /\ pc' = "done"
                 /\ query' = [query EXCEPT !.hierarchy = top.mods]
            ELSE LET caller == callStack[Len(callStack) - 1]
                 IN  /\ callStack' = Append(SubSeq(callStack, 1, Len(callStack) - 2),
                                            [caller EXCEPT !.mods = @ \o top.mods,
                                                           !.exs = <<top.module>> \o @,
                                                           !.next = @ + 1])
                     /\ UNCHANGED <<pc, query>>
  /\ UNCHANGED <<modules, methods>>

-----------------------------------------------------------------------------
(* Linked modules: lookupMethod *)

\* the arity test of lookupMethod and lookupConstructor
ArityMatch(member, arity) ==
  \/ member.isVarArg /\ member.parameters - 1 <= arity
  \/ member.parameters = arity

\* faulty variant: a declaration without body counts as well
ImplementedAlways(member) == TRUE

\* !!member.body || member.isNative
Implemented(member) == member.body \/ member.isNative

\* the predicate of module.methods().find(...)
Matches(member, name, arity) ==
  Implemented(member) /\ member.name = name /\ ArityMatch(member, arity)

\* the index of the first member of a module that matches, or 0
FindMethod(m, name, arity) ==
  LET hits == {i \in 1..Len(methods[m]) : Matches(methods[m][i], name, arity)}
  IN  IF hits = {} THEN 0 ELSE CHOOSE i \in hits : \A j \in hits : i <= j

\* the first position of the hierarchy whose module has a match, or 0
FirstModule(h, name, arity) ==
  LET hits == {i \in 1..Len(h) : FindMethod(h[i], name, arity) # 0}
  IN  IF hits = {} THEN 0 ELSE CHOOSE i \in hits : \A j \in hits : i <= j

lookupMethod(m, name, arity) ==
  /\ query.op = "none"
  /\ LET h == hierarchy(m)
         at == FirstModule(h, name, arity)
     IN  query' = [op |-> "lookupMethod", module |-> m, name |-> name, arity |-> arity,
                   hierarchy |-> h, found |-> at # 0, in |-> at,
                   method |-> IF at = 0 THEN 0 ELSE FindMethod(h[at], name, arity)]
  /\ UNCHANGED <<modules, methods, callStack, pc>>

\* hierarchy() as one call
callHierarchy(m) ==
  /\ query.op = "none"
  /\ query' = [NoQuery EXCEPT !.op = "hierarchy", !.module = m, !.hierarchy = hierarchy(m)]
  /\ UNCHANGED <<modules, methods, callStack, pc>>

-----------------------------------------------------------------------------
(* Linked modules: properties *)

Distinct(s) == \A i, j \in 1..Len(s) : i # j => s[i] # s[j]

\* C5: m.hierarchy() has m as its first element and holds no module twice.
C5_HierarchyDistinct ==
  query.op = "hierarchy"
    => /\ query.hierarchy # <<>>
       /\ query.hierarchy[1] = query.module
       /\ Distinct(query.hierarchy)

\* the arity-match predicate of the specification
ArityPredicate(x, k) == (x.isVarArg /\ x.parameters - 1 <= k) \/ x.parameters = k

\* the method a lookup returned, and the modules before the one that declares it
Returned == methods[query.hierarchy[query.in]][query.method]

Earlier == {query.hierarchy[j] : j \in 1..(query.in - 1)}

\* C6 (as stated): a method m returned by lookupMethod(n, k) has name n and matches
\* the arity k, and no module before m's in the hierarchy declares a method named n
\* that matches the arity k.
C6_Original ==
  (query.op = "lookupMethod" /\ query.found)
    => /\ Returned.name = query.name
       /\ ArityPredicate(Returned, query.arity)
       /\ \A e \in Earlier : \A i \in 1..Len(methods[e]) :
            ~(methods[e][i].name = query.name /\ ArityPredicate(methods[e][i], query.arity))

\* C6 (amended): m has name n, matches the arity k and has a body or is native, and
\* no module before m's declares a method named n with a body, or native, that
\* matches the arity k.
C6_LookupFirstImplemented ==
  (query.op = "lookupMethod" /\ query.found)
    => /\ Returned.name = query.name
       /\ ArityPredicate(Returned, query.arity)
       /\ Returned.body \/ Returned.isNative
       /\ \A e \in Earlier : \A i \in 1..Len(methods[e]) :
            ~(/\ methods[e][i].name = query.name
              /\ methods[e][i].body \/ methods[e][i].isNative
              /\ ArityPredicate(methods[e][i], query.arity))

\* a lookup that passes over a declaration without body and returns a vararg method
C6_Witness ==
  /\ query.op = "lookupMethod"
  /\ query.found
  /\ Returned.isVarArg
  /\ query.in > 1
  /\ \E i \in 1..Len(methods[query.hierarchy[1]]) :
       /\ methods[query.hierarchy[1]][i].name = query.name
       /\ ArityPredicate(methods[query.hierarchy[1]][i], query.arity)

\* the modules reachable from m through mixin and superclass references
RECURSIVE ReachFrom(_)
ReachFrom(S) ==
  LET T == S \cup UNION {{Parents(x)[i] : i \in 1..Len(Parents(x))} : x \in S}
  IN  IF T = S THEN S ELSE ReachFrom(T)

OnCycle(m) == \E i \in 1..Len(Parents(m)) : m \in ReachFrom({Parents(m)[i]})

\* C9: hierarchy() terminates, whatever cycles the references form.
C9_HierarchyTerminates == <>(pc = "done")

\* a finished run over a module that is its own ancestor, through another module
C9_Witness ==
  /\ pc = "done"
  /\ OnCycle(query.module)
  /\ \A i \in 1..Len(Parents(query.module)) : Parents(query.module)[i] # query.module

\* the call-by-call run computes what hierarchyExcluding computes, within MaxDepth
LineariseAgrees ==
  /\ Len(callStack) < MaxDepth
  /\ pc = "done" => query.hierarchy = hierarchy(query.module)

-----------------------------------------------------------------------------
(* Linked environment: inputs *)

\* strings are sequences of tokens: a name, an id, "." or "#"
NodeIds == {"p", "q", "C", "x", "o", "a", "d", "t", "g", "m"}

\* the order in which children() lists the nodes of one parent
NodeOrder == <<"p", "q", "C", "x", "o", "a", "d", "t", "g", "m">>

KindOf(n) ==
  CASE n \in {"p", "q"} -> "Package"
    [] n = "C" -> "Class"
    [] n = "x" -> "Mixin"
    [] n \in {"o", "a"} -> "Singleton"
    [] n = "d" -> "Describe"
    [] n = "t" -> "Test"
    [] n = "g" -> "Program"
    [] n = "m" -> "Method"
    [] OTHER -> "Environment"

\* every node is named after its id, but the anonymous singleton
NameOf(n) == IF n = "a" THEN <<>> ELSE <<n>>

\* superCall.superclass.target() of a singleton
SuperclassOf(n) == "C"

\* where the linker may have put each node
Containers(n) ==
  CASE n = "p" -> <<"env">>
    [] n = "q" -> <<"env", "p">>
    [] n \in {"C", "o", "d", "g"} -> <<"p", "q">>
    [] n = "x" -> <<"q">>
    [] n = "a" -> <<"q", "m">>
    [] n = "t" -> <<"d">>
    [] OTHER -> <<"C">>

\* names asked of getNodeByFQN that are no entity's fullyQualifiedName
OtherNames == { <<"z">>, <<"p", ".", "z">>, <<"p", ".", "C", "#", "z">> }

\* the number of names the FQN cache may hold
MaxCached == 2

NoAnswer == [op |-> "none", node |-> "", name |-> <<>>, result |-> "", error |-> ""]

InitEnvironment ==
  /\ \E pick \in [NodeIds -> {1, 2}] :
       /\ \A n \in NodeIds : pick[n] <= Len(Containers(n))
       /\ tree = [n \in NodeIds |-> Containers(n)[pick[n]]]
  /\ FQN_CACHE = EmptyObj
  /\ answer = NoAnswer

-----------------------------------------------------------------------------
(* Linked environment: operations *)

\* Node.is('Entity')
IsEntity(n) ==
  KindOf(n) \in {"Package", "Class", "Singleton", "Mixin", "Program", "Describe", "Test"}

Entities == {n \in NodeIds : IsEntity(n)}

\* Node.children
children(n) == SelectSeq(NodeOrder, LAMBDA c : tree[c] = n)

\* Node.parent: the node whose children() hold n
parent(n) == CHOOSE x \in NodeIds \cup {"env"} : Includes(children(x), n)

\* the index of the first tok in str, or 0
IndexOf(str, tok) ==
  LET hits == {i \in 1..Len(str) : str[i] = tok}
  IN  IF hits = {} THEN 0 ELSE CHOOSE i \in hits : \A j \in hits : i <= j

\* divideOn(separator)(str): the text before the first separator and the text after it
divideOn(separator, str) ==
  LET i == IndexOf(str, separator)
  IN  IF i = 0 THEN <<str, <<>>>>
      ELSE <<SubSeq(str, 1, i - 1), SubSeq(str, i + 1, Len(str))>>

\* str.split(separator)
RECURSIVE Split(_, _)
Split(str, separator) ==
  LET i == IndexOf(str, separator)
  IN  IF i = 0 THEN <<str>>
      ELSE <<SubSeq(str, 1, i - 1)>> \o Split(SubSeq(str, i + 1, Len(str)), separator)

\* name.replace(/\.#/g, '')
RECURSIVE StripDotHash(_)
StripDotHash(name) ==
  IF Len(name) < 2 THEN name
  ELSE IF name[1] = "." /\ name[2] = "#" THEN StripDotHash(SubSeq(name, 3, Len(name)))
  ELSE <<name[1]>> \o StripDotHash(Tail(name))

\* Entity.fullyQualifiedName
RECURSIVE fullyQualifiedName(_)
fullyQualifiedName(e) ==
  LET label == IF KindOf(e) = "Singleton"
               THEN IF NameOf(e) # <<>> THEN NameOf(e)
                    ELSE fullyQualifiedName(SuperclassOf(e)) \o <<"#", e>>
               ELSE StripDotHash(NameOf(e))
  IN  IF KindOf(parent(e)) = "Package"
      THEN fullyQualifiedName(parent(e)) \o <<".">> \o label
      ELSE label

\* the first child of current that is an entity named step, or NULL
FindEntity(current, step) ==
  LET cs == children(current)
      hits == {i \in 1..Len(cs) : IsEntity(cs[i]) /\ NameOf(cs[i]) = step}
  IN  IF hits = {} THEN NULL ELSE cs[CHOOSE i \in hits : \A j \in hits : i <= j]

\* the reduce of getNodeByQN: a node, or the error it throws
RECURSIVE Walk(_, _)
Walk(current, steps) ==
  IF steps = <<>> THEN current
  ELSE IF FindEntity(current, Head(steps)) = NULL THEN "!UnresolvedReference"
  ELSE Walk(FindEntity(current, Head(steps)), Tail(steps))

\* Environment.getNodeById: a node, or the error it throws
getNodeById(id) == IF Len(id) = 1 /\ id[1] \in NodeIds THEN id[1] ELSE "!MissingNode"

\* Package.getNodeByQN: a node, or the error it throws
getNodeByQN(package, qualifiedName) ==
  LET parts == Split(qualifiedName, "#")
      id == IF Len(parts) >= 2 THEN parts[2] ELSE <<>>
  IN  IF id # <<>> THEN getNodeById(id)
      ELSE Walk(package, Split(qualifiedName, "."))

\* what getNodeByFQN resolves a name to when it is not cached
Resolve(name) ==
  LET start == divideOn(".", name)[1]
      rest == divideOn(".", name)[2]
      tops == children("env")
      hits == {i \in 1..Len(tops) : NameOf(tops[i]) = start}
      root == tops[CHOOSE i \in hits : \A j \in hits : i <= j]
  IN  IF hits = {} THEN "!UnresolvedReference"
      ELSE IF rest # <<>> THEN getNodeByQN(root, rest) ELSE root

IsError(r) == r \in {"!UnresolvedReference", "!MissingNode"}

getNodeByFQN(name) ==
  /\ name \in DOMAIN FQN_CACHE \/ Cardinality(DOMAIN FQN_CACHE) < MaxCached
  /\ IF name \in DOMAIN FQN_CACHE
     THEN /\ answer' = [op |-> "getNodeByFQN", node |-> "", name |-> name,
                        result |-> FQN_CACHE[name], error |-> ""]
          /\ UNCHANGED FQN_CACHE
     ELSE LET response == Resolve(name)
          IN  IF IsError(response)
              THEN /\ answer' = [op |-> "getNodeByFQN", node |-> "", name |-> name,
                                 result |-> "", error |-> response]
                   /\ UNCHANGED FQN_CACHE
              ELSE /\ answer' = [op |-> "getNodeByFQN", node |-> "", name |-> name,
                                 result |-> response, error |-> ""]
                   /\ FQN_CACHE' = Put(FQN_CACHE, name, response)
  /\ UNCHANGED tree

callFullyQualifiedName(e) ==
  /\ answer' = [op |-> "fullyQualifiedName", node |-> e, name |-> fullyQualifiedName(e),
                result |-> "", error |-> ""]
  /\ UNCHANGED <<tree, FQN_CACHE>>

-----------------------------------------------------------------------------
(* Linked environment: properties *)

\* C7: environment.getNodeByFQN(e.fullyQualifiedName()) is e, for every Entity e.
C7_RoundTrip ==
  \A e \in Entities :
    (answer.op = "getNodeByFQN" /\ answer.name = fullyQualifiedName(e))
      => (answer.error = "" /\ answer.result = e)

-----------------------------------------------------------------------------
(* Transform: inputs *)

MaxNodes == 4

Kinds == {"Package", "Class"}

NoCall == [form |-> "none", root |-> 0, kinds |-> {}, applied |-> <<>>]

\* the trees: node 1 is the root, every other node hangs under an earlier one
InitTree ==
  /\ \E n \in 1..MaxNodes :
       \E par \in [2..n -> 1..n], kind \in [1..n -> Kinds] :
         /\ \A i \in 2..n : par[i] < i
         /\ ast = [size |-> n, parent |-> par, kind |-> kind]
  /\ txCall = NoCall

-----------------------------------------------------------------------------
(* Transform: operations *)

\* the nodes among the attribute values of n, in order
astChildren(n) == SelectSeq([i \in 1..ast.size |-> i], LAMBDA c : c > 1 /\ ast.parent[c] = n)

\* one application of tx (or, for a kind the mapping lacks, of n => n) to node n:
\* the node, whether the mapping has its kind, and the nodes rewritten before it
Application(n, mapped, applied) ==
  [node |-> n, mapped |-> mapped, rewritten |-> {applied[i].node : i \in 1..Len(applied)}]

\* applyTransform(value) for a node, threading the applications made so far.
\* A single function is applied to the node first and the result's attributes are
\* mapped afterwards; a mapping's function receives the node with mapped attributes.
RECURSIVE applyTransform(_, _, _, _)
RECURSIVE mapObject(_, _, _, _)
mapObject(nodes, form, kinds, applied) ==
  IF nodes = <<>> THEN applied
  ELSE mapObject(Tail(nodes), form, kinds, applyTransform(Head(nodes), form, kinds, applied))

applyTransform(n, form, kinds, applied) ==
  IF form = "function"
  THEN mapObject(astChildren(n), form, kinds, Append(applied, Application(n, TRUE, applied)))
  ELSE LET inner == mapObject(astChildren(n), form, kinds, applied)
       IN  Append(inner, Application(n, ast.kind[n] \in kinds, inner))

\* node.transform(tx), tx a single function
transformFunction(n) ==
  /\ txCall.form = "none"
  /\ txCall' = [form |-> "function", root |-> n, kinds |-> {},
                applied |-> applyTransform(n, "function", {}, <<>>)]
  /\ UNCHANGED ast

\* node.transform(tx), tx a mapping from the kinds in kinds to functions
transformMapping(n, kinds) ==
  /\ txCall.form = "none"
  /\ txCall' = [form |-> "mapping", root |-> n, kinds |-> kinds,
                applied |-> applyTransform(n, "mapping", kinds, <<>>)]
  /\ UNCHANGED ast

-----------------------------------------------------------------------------
(* Transform: properties *)

\* C8: with either form of tx, when tx is applied to a node every child of that node
\* has been rewritten already.
C8_BottomUp ==
  \A i \in 1..Len(txCall.applied) :
    \A j \in 1..Len(astChildren(txCall.applied[i].node)) :
      astChildren(txCall.applied[i].node)[j] \in txCall.applied[i].rewritten

-----------------------------------------------------------------------------
(* Specifications *)

IdleEnvironment == tree = <<>> /\ FQN_CACHE = EmptyObj /\ answer = NoAnswer

IdleTransform == ast = [size |-> 0, parent |-> <<>>, kind |-> <<>>] /\ txCall = NoCall

IdleRuntime ==
  /\ evaluations = <<>> /\ hFrameStack = <<>> /\ hFrame = <<>> /\ hLocals = <<>>
  /\ hOperandStack = <<>> /\ hResume = <<>> /\ hInstances = <<>> /\ hObject = <<>>
  /\ hFields = <<>> /\ uuidCount = 0 /\ ops = 0 /\ last = NoOp

IdleModules ==
  /\ modules = <<>> /\ methods = <<>> /\ callStack = <<>> /\ pc = "idle" /\ query = NoQuery

\* the runtime: an Evaluation, its copies and the operations on them
InitRuntimeOnly == InitRuntime /\ IdleModules /\ IdleEnvironment /\ IdleTransform

SpecRuntime == InitRuntimeOnly /\ [][NextRuntime]_vars

\* hierarchy and lookupMethod over the module graphs and their method lists
InitLookup ==
  /\ InitGraph
  /\ \E pick \in [ModuleIds -> {1, 2}] :
       /\ \A m \in ModuleIds : pick[m] <= Len(MethodChoices(m))
       /\ methods = [m \in ModuleIds |-> MethodChoices(m)[pick[m]]]
  /\ IdleRuntime /\ IdleEnvironment /\ IdleTransform

NextLookup ==
  \/ \E m \in ModuleIds : callHierarchy(m) /\ UNCHANGED <<rtVars, envVars, txVars>>
  \/ \E m \in ModuleIds, name \in MethodNames, arity \in 0..MaxArity :
        lookupMethod(m, name, arity) /\ UNCHANGED <<rtVars, envVars, txVars>>

SpecLookup == InitLookup /\ [][NextLookup]_vars

\* hierarchy() run call by call; every call proceeds (the code is synchronous)
InitLinearise ==
  /\ InitGraph
  /\ methods = [m \in ModuleIds |-> <<>>]
  /\ IdleRuntime /\ IdleEnvironment /\ IdleTransform

NextLinearise ==
  \/ \E m \in ModuleIds : StartHierarchy(m) /\ UNCHANGED <<rtVars, envVars, txVars>>
  \/ CallParent /\ UNCHANGED <<rtVars, envVars, txVars>>
  \/ ReturnMods /\ UNCHANGED <<rtVars, envVars, txVars>>

SpecLinearise == InitLinearise /\ [][NextLinearise]_vars /\ WF_vars(NextLinearise)

\* fully qualified names and their resolution in the linked environments
InitNames == InitEnvironment /\ IdleRuntime /\ IdleModules /\ IdleTransform

NextNames ==
  \/ \E e \in Entities : callFullyQualifiedName(e) /\ UNCHANGED <<rtVars, modVars, txVars>>
  \/ \E e \in Entities :
        getNodeByFQN(fullyQualifiedName(e)) /\ UNCHANGED <<rtVars, modVars, txVars>>
  \/ \E name \in OtherNames : getNodeByFQN(name) /\ UNCHANGED <<rtVars, modVars, txVars>>

SpecNames == InitNames /\ [][NextNames]_vars

\* transform over the trees, with both forms of tx
InitTransform == InitTree /\ IdleRuntime /\ IdleModules /\ IdleEnvironment

NextTransform ==
  \/ \E n \in 1..ast.size : transformFunction(n) /\ UNCHANGED <<rtVars, modVars, envVars>>
  \/ \E n \in 1..ast.size, kinds \in SUBSET Kinds :
        transformMapping(n, kinds) /\ UNCHANGED <<rtVars, modVars, envVars>>

SpecTransform == InitTransform /\ [][NextTransform]_vars

====
